---- MODULE Spec2Model ----
(***************************************************************************)
(* A model of palette.cpp: settings loading, per-channel ordering of the   *)
(* cluster centres, swatch-strip composition, thresholding of the          *)
(* correlation surface, de-duplication of the candidates along the         *)
(* orientation axis, and the per-image driver loop of main.                *)
(*                                                                         *)
(* Numbers: a colour-centre value v stands for v/2 (floats with one binary *)
(* digit after the point), a threshold t stands for t/100.                 *)
(***************************************************************************)
EXTENDS Integers, Sequences, FiniteSets, TLC

VARIABLES
    init_values,    \* the global configuration struct
    Settings,       \* state of the ifstream in read_settings
    setting,        \* the string the lines are read into
    pos,            \* which of the ten settings is read next
    lineKind,       \* history: what the input held at each position
    settingsError,  \* "Error reading the settings file!" was printed
    kcenters,       \* history: the centres as kmeans returned them
    centers,        \* the centres matrix (sorted in place)
    win,            \* footprint extents returned by setwin
    model,          \* the swatch strip returned by create_palette
    res,            \* the correlation surface of the current image
    loc,            \* the candidate vector of the current image
    it,             \* position of the de-duplication loop in loc
    temp,           \* last accepted primary-axis coordinate
    detections,     \* rectangles drawn on the current image
    discarded,      \* history: candidates skipped, with the number accepted before
    notFound,       \* "Palette not found!" was printed for the current image
    listing,        \* the directory listing: is each entry decodable?
    entry,          \* number of entries the iterator has handed out
    exit,           \* exit status of main
    clustered,      \* history: entries that went through kmeans
    localized,      \* history: entries that went through matchTemplate
    displayed,      \* history: entries that were shown
    results,        \* history: (candidates, detections) of each shown entry
    pc              \* position of the program

settingsVars == <<Settings, setting, pos, lineKind, settingsError>>
paletteVars  == <<kcenters, centers, model>>
matchVars    == <<res, loc, it, temp, detections, discarded, notFound>>
runVars      == <<listing, entry, exit, clustered, localized, displayed, results>>
vars == <<init_values, settingsVars, paletteVars, win, matchVars, runVars, pc>>

(***************************************************************************)
(* Bounds of the model                                                     *)
(***************************************************************************)
MaxK       == 3     \* largest n_clusters in the ordering and composing models
MaxVal     == 2     \* largest centre value, in half units
MaxCell    == 2     \* largest color_w / color_h in the composing model
LocRows    == 2     \* rows of the surface in the thresholding model
LocCols    == 2     \* columns of the surface in the thresholding model
ResRows    == 2     \* short side of the surface in the de-duplication model
ResCols    == 9     \* long side of the surface in the de-duplication model
MaxHits    == 3     \* surface cells above the lowest score, de-duplication model
MaxEntries == 2     \* entries of the directory listing
MaxRunHits == 1     \* as MaxHits, inside the driver loop

Abs(n) == IF n < 0 THEN -n ELSE n

RECURSIVE Reverse(_)
Reverse(s) == IF s = <<>> THEN <<>> ELSE Append(Reverse(Tail(s)), Head(s))

MergeRadius == 7

(***************************************************************************)
(* The configuration and its compiled-in defaults                          *)
(***************************************************************************)
DefaultPath == <<".", ".", "/", "d", "a", "t", "a", "s", "e", "t", "/">>

\* colors has no initializer; the struct is a global and starts zeroed.
Defaults ==
    [n_clusters |-> 6, resize |-> 120, win_w |-> 512, win_h |-> 512,
     color_w |-> 128, color_h |-> 139, colors |-> 0, path |-> DefaultPath,
     threshold |-> 99, vertical |-> TRUE, reverse |-> TRUE]

\* the field assigned from line k of the settings file
FieldOf(k) ==
    CASE k = 1 -> "n_clusters" [] k = 2 -> "resize"   [] k = 3 -> "win_w"
      [] k = 4 -> "win_h"      [] k = 5 -> "color_w"  [] k = 6 -> "color_h"
      [] k = 7 -> "path"       [] k = 8 -> "threshold" [] k = 9 -> "vertical"
      [] k = 10 -> "reverse"

(***************************************************************************)
(* read_settings                                                           *)
(***************************************************************************)
Digits == {"1", "2"}
DigitVal(c) == IF c = "1" THEN 1 ELSE 2

\* the lines a settings file may hold
SettingLines == {<<>>, <<"1">>, <<"2">>, <<"x">>, <<"1", "x">>, <<"2", "1">>}

\* strtol's scan: the value of the longest run of digits at the front of s,
\* continuing from the value acc
RECURSIVE DigitPrefix(_, _)
DigitPrefix(s, acc) ==
    IF s = <<>> \/ Head(s) \notin Digits THEN acc
    ELSE DigitPrefix(Tail(s), 10 * acc + DigitVal(Head(s)))

\* std::stoi: throws std::invalid_argument when no digit starts the string,
\* otherwise converts the leading digits and ignores what follows
stoi(s) ==
    IF s = <<>> \/ Head(s) \notin Digits
    THEN [ok |-> FALSE, val |-> 0]
    ELSE [ok |-> TRUE, val |-> DigitPrefix(s, 0)]

\* std::stod, in hundredths
stod(s) ==
    IF s = <<>> \/ Head(s) \notin Digits
    THEN [ok |-> FALSE, val |-> 0]
    ELSE [ok |-> TRUE, val |-> 100 * DigitPrefix(s, 0)]

\* the conversion applied to line k: the value assigned, or a throw
Convert(k, s) ==
    CASE k \in 1..6  -> stoi(s)
      [] k = 7       -> [ok |-> TRUE, val |-> s]
      [] k = 8       -> stod(s)
      [] k \in 9..10 -> [ok |-> stoi(s).ok, val |-> (stoi(s).val = 1)]

\* ifstream Settings("../settings.txt"): the file may be absent
Open ==
    /\ pc = "open"
    /\ \E present \in BOOLEAN : Settings' = IF present THEN "good" ELSE "fail"
    /\ pc' = "read"
    /\ UNCHANGED <<init_values, setting, pos, lineKind, settingsError,
                   paletteVars, win, matchVars, runVars>>

\* std::getline(Settings, setting).  A stream that is not good() is set to
\* fail and the string is left as it was; otherwise the string is erased and
\* the next line extracted: a line ended by a newline, a last line ended by
\* the end of the file (eofbit), or nothing at all (eofbit and failbit).
\* got: the line was present in the file
Getline(stream, str, stream2, str2, got) ==
    IF stream # "good"
    THEN stream2 = "fail" /\ str2 = str /\ got = FALSE
    ELSE \/ /\ str2 \in SettingLines
            /\ stream2 = "good"
            /\ got = TRUE
         \/ /\ str2 \in SettingLines \ {<<>>}
            /\ stream2 = "eof"
            /\ got = TRUE
         \/ /\ str2 = <<>>
            /\ stream2 = "fail"
            /\ got = FALSE

\* one getline / convert / assign / print group of read_settings
ReadSetting(k) ==
    /\ pc = "read"
    /\ pos = k
    /\ \E got \in BOOLEAN :
          /\ Getline(Settings, setting, Settings', setting', got)
          /\ lineKind' = [lineKind EXCEPT ![k] =
                            IF ~got THEN "missing"
                            ELSE IF ~Convert(k, setting').ok THEN "malformed"
                            ELSE "ok"]
    /\ IF Convert(k, setting').ok
       THEN /\ init_values' = [init_values EXCEPT ![FieldOf(k)] = Convert(k, setting').val]
            /\ pos' = k + 1
            /\ pc' = IF k = 10 THEN "close" ELSE "read"
       ELSE /\ init_values' = init_values
            /\ pos' = pos
            /\ pc' = "catch"
    /\ UNCHANGED <<settingsError, paletteVars, win, matchVars, runVars>>

\* Settings.close() and the normal return
Close ==
    /\ pc = "close"
    /\ Settings' = "closed"
    /\ pc' = "colors"
    /\ UNCHANGED <<init_values, setting, pos, lineKind, settingsError,
                   paletteVars, win, matchVars, runVars>>

\* catch(const exception&): print the diagnostic and return
Catch ==
    /\ pc = "catch"
    /\ settingsError' = TRUE
    /\ Settings' = "closed"
    /\ pc' = "colors"
    /\ UNCHANGED <<init_values, setting, pos, lineKind,
                   paletteVars, win, matchVars, runVars>>

\* the paths a command line may give
ArgvPaths == {<<"/">>}

\* main: colors = n_clusters - 1, then the optional path argument
MainSetup ==
    /\ pc = "colors"
    /\ \E arg \in ArgvPaths \cup {<<"none">>} :
          init_values' = [init_values EXCEPT
                            !.colors = init_values.n_clusters - 1,
                            !.path = IF arg = <<"none">> THEN @ ELSE arg]
    /\ pc' = "setwin"
    /\ UNCHANGED <<settingsVars, paletteVars, win, matchVars, runVars>>

(***************************************************************************)
(* setwin                                                                  *)
(***************************************************************************)
Point(px, py) == [x |-> px, y |-> py]

setwin_plain(iv) == Point(iv.color_w, iv.color_h * iv.colors)

\* the extents of the strip, from the configuration alone
setwin(iv) ==
    IF iv.vertical
    THEN Point(iv.color_w, iv.color_h * iv.colors)
    ELSE Point(iv.color_h * iv.colors, iv.color_w)

\* main: Point win = setwin()
SetWin ==
    /\ pc = "setwin"
    /\ win' = setwin(init_values)
    /\ pc' = "iter"
    /\ UNCHANGED <<init_values, settingsVars, paletteVars, matchVars, runVars>>

(***************************************************************************)
(* kmeans and the ordering of the centres                                  *)
(***************************************************************************)
Vals == 1..MaxVal
Channels == 1..3

\* the n x 3 matrices kmeans may return
Matrices(n) == [1..n -> [Channels -> Vals]]

RECURSIVE Insert(_, _)
Insert(v, s) ==
    IF s = <<>> THEN <<v>>
    ELSE IF v <= Head(s) THEN <<v>> \o s
    ELSE <<Head(s)>> \o Insert(v, Tail(s))

RECURSIVE SortAscending(_)
SortAscending(s) ==
    IF s = <<>> THEN <<>> ELSE Insert(Head(s), SortAscending(Tail(s)))

Column(m, c) == [i \in 1..Len(m) |-> m[i][c]]

SortEveryRow(m) == [i \in 1..Len(m) |-> SortAscending(m[i])]

\* cv::sort(centers, centers, SORT_EVERY_COLUMN | SORT_ASCENDING)
SortEveryColumn(m) ==
    [i \in 1..Len(m) |-> [c \in Channels |-> SortAscending(Column(m, c))[i]]]

\* the non-decreasing sequences of n values, none below lo
RECURSIVE NonDecreasing(_, _)
NonDecreasing(n, lo) ==
    IF n = 0 THEN {<<>>}
    ELSE UNION {{<<v>> \o t : t \in NonDecreasing(n - 1, v)} : v \in lo..MaxVal}

\* the n x 3 matrices the ordering step may leave: every column non-decreasing
SortedMatrices(n) ==
    {[i \in 1..n |-> [c \in Channels |-> cols[c][i]]]
        : cols \in [Channels -> NonDecreasing(n, 1)]}

\* kmeans(data, n_clusters, ..., centers): n_clusters rows of three floats
Kmeans ==
    /\ pc = "kmeans"
    /\ centers' \in Matrices(init_values.n_clusters)
    /\ kcenters' = centers'
    /\ pc' = "sort"
    /\ UNCHANGED <<init_values, settingsVars, model, win, matchVars, runVars>>

SortCenters ==
    /\ pc = "sort"
    /\ centers' = SortEveryColumn(centers)
    /\ pc' = "compose"
    /\ UNCHANGED <<init_values, settingsVars, kcenters, model, win, matchVars, runVars>>

(***************************************************************************)
(* create_palette                                                          *)
(***************************************************************************)
\* saturate_cast<uchar> of the centre value v/2: round to nearest, ties to
\* even, clamped to 0..255
Round8(v) ==
    LET q == v \div 2
        r == IF v % 2 = 0 THEN q ELSE IF q % 2 = 0 THEN q ELSE q + 1
    IN  IF r > 255 THEN 255 ELSE IF r < 0 THEN 0 ELSE r

\* Scalar(centers(i,0), centers(i,1), centers(i,2)) stored as CV_8UC3
Colour(row) == [c \in Channels |-> Round8(row[c])]

EmptyMat == [rows |-> 0, cols |-> 0, data |-> <<>>]

\* Mat(rows, cols, CV_8UC3, colour)
SolidMat(nrows, ncols, colour) ==
    [rows |-> nrows, cols |-> ncols,
     data |-> [r \in 1..nrows |-> [c \in 1..ncols |-> colour]]]

RECURSIVE vconcat(_)
vconcat(mats) ==
    IF mats = <<>> THEN EmptyMat
    ELSE IF Len(mats) = 1 THEN mats[1]
    ELSE LET rest == vconcat(Tail(mats))
         IN  [rows |-> mats[1].rows + rest.rows, cols |-> mats[1].cols,
              data |-> mats[1].data \o rest.data]

RECURSIVE hconcat(_)
hconcat(mats) ==
    IF mats = <<>> THEN EmptyMat
    ELSE IF Len(mats) = 1 THEN mats[1]
    ELSE LET rest == hconcat(Tail(mats))
         IN  [rows |-> mats[1].rows, cols |-> mats[1].cols + rest.cols,
              data |-> [r \in 1..mats[1].rows |-> mats[1].data[r] \o rest.data[r]]]

create_palette_norev(ver, rev, cen) ==
    LET xx == IF ver THEN init_values.color_h ELSE init_values.color_w
        yy == IF ver THEN init_values.color_w ELSE init_values.color_h
        palette == [i \in 1..(Len(cen) - 1) |-> SolidMat(xx, yy, Colour(cen[i]))]
    IN  IF ver THEN vconcat(palette) ELSE hconcat(palette)

\* one solid cell of x rows and y columns for every row of the centres but
\* the last, reversed if rev, stacked if ver and put side by side otherwise
create_palette(ver, rev, cen) ==
    LET xx == IF ver THEN init_values.color_h ELSE init_values.color_w
        yy == IF ver THEN init_values.color_w ELSE init_values.color_h
        palette == [i \in 1..(Len(cen) - 1) |-> SolidMat(xx, yy, Colour(cen[i]))]
        ordered == IF rev THEN Reverse(palette) ELSE palette
    IN  IF ver THEN vconcat(ordered) ELSE hconcat(ordered)

\* main: model = create_palette(vertical, reverse, centers)
CreatePalette ==
    /\ pc = "compose"
    /\ model' = create_palette(init_values.vertical, init_values.reverse, centers)
    /\ pc' = "match"
    /\ UNCHANGED <<init_values, settingsVars, kcenters, centers, win, matchVars, runVars>>

(***************************************************************************)
(* The correlation surface and its thresholding                            *)
(***************************************************************************)
LowScore   == 0
HitScores  == {99}
Thresholds == {99, 100}
Scores     == {LowScore} \cup Thresholds

CellsOf(nrows, ncols) == (0..(nrows - 1)) \X (0..(ncols - 1))

\* the sets of at most n cells
RECURSIVE HitSets(_, _)
HitSets(cells, n) ==
    IF n = 0 THEN {{}}
    ELSE LET prev == HitSets(cells, n - 1)
         IN  prev \cup {S \cup {c} : S \in prev, c \in cells}

\* the surfaces matchTemplate may return: nrows x ncols scores, at most
\* maxhits of them above the lowest score
Surfaces(nrows, ncols, maxhits) ==
    UNION {{[rows |-> nrows, cols |-> ncols,
             at |-> [c \in CellsOf(nrows, ncols) |-> IF c \in S THEN f[c] ELSE LowScore]]
              : f \in [S -> HitScores]}
           : S \in HitSets(CellsOf(nrows, ncols), maxhits)}

\* every surface of nrows x ncols scores
AllSurfaces(nrows, ncols) ==
    {[rows |-> nrows, cols |-> ncols, at |-> f] : f \in [CellsOf(nrows, ncols) -> Scores]}

MeetsThresholdStrict(score, thr) == score > thr

\* res.at<float>(row, col) >= init_values.threshold
MeetsThreshold(score, thr) == score >= thr

\* the two nested loops over the surface, from cell number n on (row-major)
RECURSIVE Scan(_, _, _)
Scan(r, thr, n) ==
    IF n >= r.rows * r.cols THEN <<>>
    ELSE LET row == n \div r.cols
             col == n % r.cols
         IN  (IF MeetsThreshold(r.at[<<row, col>>], thr)
              THEN <<Point(col, row)>> ELSE <<>>) \o Scan(r, thr, n + 1)

\* main: collect the candidates of the surface
Localize ==
    /\ pc = "scan"
    /\ loc' = Scan(res, init_values.threshold, 0)
    /\ pc' = "reverse"
    /\ UNCHANGED <<init_values, settingsVars, paletteVars, win, res, it, temp,
                   detections, discarded, notFound, runVars>>

(***************************************************************************)
(* De-duplication along the orientation axis                               *)
(***************************************************************************)
InitialLastCarried(previous) == previous

\* int unique, temp = 0: declared inside the loop body, so whatever the
\* previous image left is gone
InitialLast(previous) == 0

\* main: if(reverse) reverse(loc); temp = 0
BeginDedup ==
    /\ pc = "reverse"
    /\ loc' = IF init_values.reverse THEN Reverse(loc) ELSE loc
    /\ temp' = InitialLast(temp)
    /\ it' = 1
    /\ pc' = "dedup"
    /\ UNCHANGED <<init_values, settingsVars, paletteVars, win, res,
                   detections, discarded, notFound, runVars>>

\* the primary-axis coordinate of a candidate
Unique(pt) == IF init_values.vertical THEN pt.x ELSE pt.y

\* one iteration of for (const Point& pt : loc)
DedupStep ==
    /\ pc = "dedup"
    /\ it <= Len(loc)
    /\ LET pt == loc[it]
       IN  IF Abs(Unique(pt) - temp) > MergeRadius
           THEN /\ detections' = Append(detections,
                       [pt |-> pt, br |-> Point(pt.x + win.x, pt.y + win.y)])
                /\ temp' = Unique(pt)
                /\ discarded' = discarded
           ELSE /\ discarded' = Append(discarded, [pt |-> pt, before |-> Len(detections)])
                /\ UNCHANGED <<detections, temp>>
    /\ it' = it + 1
    /\ UNCHANGED <<init_values, settingsVars, paletteVars, win, res, loc,
                   notFound, runVars, pc>>

\* main: if(temp==0) cout << "Palette not found!"
Report ==
    /\ pc = "dedup"
    /\ it > Len(loc)
    /\ notFound' = (temp = 0)
    /\ pc' = "show"
    /\ UNCHANGED <<init_values, settingsVars, paletteVars, win, res, loc, it, temp,
                   detections, discarded, runVars>>

(***************************************************************************)
(* The loop of main over the directory                                     *)
(***************************************************************************)
ImreadSkip ==
    /\ pc = "iter"
    /\ entry < Len(listing)
    /\ entry' = entry + 1
    /\ detections' = <<>>
    /\ discarded' = <<>>
    /\ notFound' = FALSE
    /\ pc' = IF listing[entry + 1] THEN "blur" ELSE "iter"
    /\ UNCHANGED <<init_values, settingsVars, paletteVars, win, res, loc, it, temp,
                   listing, exit, clustered, localized, displayed, results>>

\* the iterator hands out the next entry and imread decodes it, or fails
\* and main returns 1
Imread ==
    /\ pc = "iter"
    /\ entry < Len(listing)
    /\ entry' = entry + 1
    /\ detections' = <<>>
    /\ discarded' = <<>>
    /\ notFound' = FALSE
    /\ IF listing[entry + 1]
       THEN pc' = "blur" /\ exit' = exit
       ELSE pc' = "exit" /\ exit' = 1
    /\ UNCHANGED <<init_values, settingsVars, paletteVars, win, res, loc, it, temp,
                   listing, clustered, localized, displayed, results>>

\* GaussianBlur, resize, kmeans, sort, create_palette and the palette
\* window; the pixel values are not followed in the loop
ClusterAndCompose ==
    /\ pc = "blur"
    /\ clustered' = Append(clustered, entry)
    /\ pc' = "match"
    /\ UNCHANGED <<init_values, settingsVars, paletteVars, win, matchVars,
                   listing, entry, exit, localized, displayed, results>>

\* matchTemplate(gb, model, res, TM_CCOEFF_NORMED); in the loop the image is
\* as high as the strip, so the surface has one row
MatchTemplate ==
    /\ pc = "match"
    /\ res' \in Surfaces(1, ResCols, MaxRunHits)
    /\ localized' = Append(localized, entry)
    /\ pc' = "scan"
    /\ UNCHANGED <<init_values, settingsVars, paletteVars, win, loc, it, temp,
                   detections, discarded, notFound,
                   listing, entry, exit, clustered, displayed, results>>

\* imshow of the annotated image, waitKey, destroyAllWindows
Show ==
    /\ pc = "show"
    /\ displayed' = Append(displayed, entry)
    /\ results' = results \cup {[loc |-> loc, det |-> detections]}
    /\ pc' = "iter"
    /\ UNCHANGED <<init_values, settingsVars, paletteVars, win, matchVars,
                   listing, entry, exit, clustered, localized>>

\* the listing is exhausted: return 0
Finish ==
    /\ pc = "iter"
    /\ entry = Len(listing)
    /\ exit' = 0
    /\ pc' = "exit"
    /\ UNCHANGED <<init_values, settingsVars, paletteVars, win, matchVars,
                   listing, entry, clustered, localized, displayed, results>>

(***************************************************************************)
(* Specifications                                                          *)
(***************************************************************************)
NoLines == [k \in 1..10 |-> "unread"]

SettingsIdle ==
    /\ Settings = "closed" /\ setting = <<>> /\ pos = 1
    /\ lineKind = NoLines /\ settingsError = FALSE

PaletteIdle == kcenters = <<>> /\ centers = <<>> /\ model = EmptyMat

MatchIdle ==
    /\ res = [rows |-> 0, cols |-> 0, at |-> <<>>]
    /\ loc = <<>> /\ it = 1 /\ temp = 0
    /\ detections = <<>> /\ discarded = <<>> /\ notFound = FALSE

RunIdle ==
    /\ listing = <<>> /\ entry = 0 /\ exit = -1
    /\ clustered = <<>> /\ localized = <<>> /\ displayed = <<>> /\ results = {}

\* the program at its start: read_settings, then the first lines of main
SettingsInit ==
    /\ init_values = Defaults
    /\ SettingsIdle /\ PaletteIdle /\ MatchIdle /\ RunIdle
    /\ win = Point(0, 0)
    /\ pc = "open"

SettingsNext ==
    \/ Open
    \/ \E k \in 1..10 : ReadSetting(k)
    \/ Close
    \/ Catch
    \/ MainSetup
    \/ SetWin

SpecSettings == SettingsInit /\ [][SettingsNext]_vars

\* configurations with n clusters
WithClusters(n) == [Defaults EXCEPT !.n_clusters = n, !.colors = n - 1]

\* the ordering step on whatever kmeans returns
SortInit ==
    /\ \E n \in 2..MaxK : init_values = WithClusters(n)
    /\ SettingsIdle /\ PaletteIdle /\ MatchIdle /\ RunIdle
    /\ win = setwin(init_values)
    /\ pc = "kmeans"

SortNext == Kmeans \/ SortCenters

SpecSort == SortInit /\ [][SortNext]_vars

\* create_palette on sorted centres, for every orientation and cell size
PaletteInit ==
    /\ \E n \in 2..MaxK, w \in 1..MaxCell, h \in 1..MaxCell, v \in BOOLEAN, r \in BOOLEAN :
          init_values = [WithClusters(n) EXCEPT !.color_w = w, !.color_h = h,
                                                !.vertical = v, !.reverse = r]
    /\ SettingsIdle /\ MatchIdle /\ RunIdle
    /\ kcenters = <<>>
    /\ centers \in SortedMatrices(init_values.n_clusters)
    /\ model = EmptyMat
    /\ win = setwin(init_values)
    /\ pc = "compose"

PaletteNext == CreatePalette

SpecPalette == PaletteInit /\ [][PaletteNext]_vars

\* the orientation, traversal order and threshold of a run
MatchConfigs ==
    {[WithClusters(6) EXCEPT !.vertical = v, !.reverse = r, !.threshold = t]
        : v \in BOOLEAN, r \in BOOLEAN, t \in Thresholds}

\* thresholding of every small surface
LocalizeInit ==
    /\ init_values \in MatchConfigs
    /\ SettingsIdle /\ PaletteIdle /\ RunIdle
    /\ res \in AllSurfaces(LocRows, LocCols)
    /\ loc = <<>> /\ it = 1 /\ temp = 0
    /\ detections = <<>> /\ discarded = <<>> /\ notFound = FALSE
    /\ win = setwin(init_values)
    /\ pc = "scan"

LocalizeNext == Localize

SpecLocalize == LocalizeInit /\ [][LocalizeNext]_vars

\* thresholding and de-duplication of one surface
MatchInit ==
    /\ init_values \in MatchConfigs
    /\ SettingsIdle /\ PaletteIdle /\ RunIdle
    /\ res \in Surfaces(ResRows, ResCols, MaxHits) \cup Surfaces(ResCols, ResRows, MaxHits)
    /\ loc = <<>> /\ it = 1 /\ temp = 0
    /\ detections = <<>> /\ discarded = <<>> /\ notFound = FALSE
    /\ win = setwin(init_values)
    /\ pc = "scan"

MatchNext == Localize \/ BeginDedup \/ DedupStep \/ Report

SpecMatch == MatchInit /\ [][MatchNext]_vars

\* the orientation and traversal order of a run
RunConfigs == {[WithClusters(6) EXCEPT !.vertical = v, !.reverse = r] : v \in BOOLEAN, r \in BOOLEAN}

\* the directory listings
Listings == UNION {[1..n -> BOOLEAN] : n \in 0..MaxEntries}

\* the loop of main over a listing
RunInit ==
    /\ init_values \in RunConfigs
    /\ SettingsIdle /\ PaletteIdle /\ MatchIdle
    /\ listing \in Listings
    /\ entry = 0 /\ exit = -1
    /\ clustered = <<>> /\ localized = <<>> /\ displayed = <<>> /\ results = {}
    /\ win = setwin(init_values)
    /\ pc = "iter"

RunNext ==
    \/ Imread
    \/ ClusterAndCompose
    \/ MatchTemplate
    \/ Localize
    \/ BeginDedup
    \/ DedupStep
    \/ Report
    \/ Show
    \/ Finish

SpecRun == RunInit /\ [][RunNext]_vars

(***************************************************************************)
(* Properties                                                              *)
(***************************************************************************)
\* C1: any two detections accepted for an image, consecutive or not, have
\* primary-axis coordinates more than 7 apart.
C1_AcceptedFarApart ==
    \A i, j \in 1..Len(detections) :
        i # j => Abs(Unique(detections[i].pt) - Unique(detections[j].pt)) > MergeRadius

\* C2: once all candidates of an image are processed, "Palette not found!"
\* is printed if and only if no detection was accepted.
C2_NotFoundIffNoDetection ==
    pc = "show" => (notFound <=> detections = <<>>)

\* C3: the candidates are exactly the surface cells whose score is at least
\* the threshold, as (col,row) points, each once, in row-major order.
C3_CandidatesAreThresholdCells ==
    pc = "reverse" =>
        /\ \A i \in 1..Len(loc) :
              /\ <<loc[i].y, loc[i].x>> \in CellsOf(res.rows, res.cols)
              /\ res.at[<<loc[i].y, loc[i].x>>] >= init_values.threshold
        /\ \A c \in CellsOf(res.rows, res.cols) :
              res.at[c] >= init_values.threshold
                 => \E i \in 1..Len(loc) : loc[i] = Point(c[2], c[1])
        /\ \A i, j \in 1..Len(loc) :
              i < j => loc[i].y * res.cols + loc[i].x < loc[j].y * res.cols + loc[j].x

C3_Witness ==
    /\ pc = "reverse"
    /\ Len(loc) = 3
    /\ loc[2].x > loc[3].x
    /\ loc[2].y < loc[3].y
    /\ res.at[<<loc[1].y, loc[1].x>>] = init_values.threshold
    /\ res.at[<<loc[2].y, loc[2].x>>] > init_values.threshold
    /\ \E c \in CellsOf(res.rows, res.cols) : res.at[c] < init_values.threshold

\* C4: the extents setwin computes from the configuration (vertical: width
\* color_w, height color_h * (K-1); otherwise transposed) are the width and
\* height of the strip create_palette builds from K centres.
C4_FootprintEqualsStrip ==
    pc = "match" =>
        /\ win = IF init_values.vertical
                 THEN Point(init_values.color_w, init_values.color_h * (Len(centers) - 1))
                 ELSE Point(init_values.color_h * (Len(centers) - 1), init_values.color_w)
        /\ model.cols = win.x
        /\ model.rows = win.y
        /\ Len(model.data) = win.y
        /\ \A r \in 1..Len(model.data) : Len(model.data[r]) = win.x

C4_Witness ==
    /\ pc = "match"
    /\ ~init_values.vertical
    /\ Len(centers) = MaxK
    /\ model.rows # model.cols
    /\ model.rows = MaxCell

\* C9: the strip has K-1 solid cells along the orientation axis; cell i has
\* the colour of sorted row i, or of row K-2-i when reverse is set; row K-1
\* gives no cell.
C9_StripCells ==
    pc = "match" =>
        LET K      == Len(centers)
            along  == IF init_values.vertical THEN model.rows ELSE model.cols
            across == IF init_values.vertical THEN model.cols ELSE model.rows
            cell(r, c) == IF init_values.vertical
                          THEN (r - 1) \div init_values.color_h
                          ELSE (c - 1) \div init_values.color_h
            source(i)  == IF init_values.reverse THEN K - 2 - i ELSE i
        IN  /\ along = (K - 1) * init_values.color_h
            /\ across = init_values.color_w
            /\ \A r \in 1..model.rows, c \in 1..model.cols :
                  /\ cell(r, c) \in 0..(K - 2)
                  /\ model.data[r][c] = Colour(centers[source(cell(r, c)) + 1])

C9_Witness ==
    /\ pc = "match"
    /\ init_values.reverse
    /\ Len(centers) = 3
    /\ Colour(centers[1]) # Colour(centers[2])
    /\ Colour(centers[3]) # Colour(centers[2])
    /\ model.data[1][1] = Colour(centers[2])

\* the number of rows of m whose channel c holds v
Count(m, c, v) == Cardinality({i \in 1..Len(m) : m[i][c] = v})

\* C10: after the ordering step every channel column is non-decreasing and
\* a permutation of that channel's values before, and the last row holds
\* the maximum of every channel.
C10_ChannelsSortedIndependently ==
    pc = "compose" =>
        /\ Len(centers) = Len(kcenters)
        /\ \A c \in Channels :
              /\ \A i \in 1..(Len(centers) - 1) : centers[i][c] <= centers[i + 1][c]
              /\ \A v \in Vals : Count(centers, c, v) = Count(kcenters, c, v)
              /\ \A i \in 1..Len(kcenters) : kcenters[i][c] <= centers[Len(centers)][c]

C10_Witness ==
    /\ pc = "compose"
    /\ \E i \in 1..Len(centers) : \A j \in 1..Len(kcenters) : centers[i] # kcenters[j]
    /\ \E c \in Channels : centers[1][c] < centers[Len(centers)][c]

\* the first entry that does not decode, or one past the listing
FirstBad ==
    IF \E i \in 1..Len(listing) : ~listing[i]
    THEN CHOOSE i \in 1..Len(listing) :
            ~listing[i] /\ \A j \in 1..(i - 1) : listing[j]
    ELSE Len(listing) + 1

Upto(n) == [i \in 1..n |-> i]

C6_DefaultsRetained ==
    pc = "colors" =>
        /\ \A k \in 1..10 :
              lineKind[k] \in {"missing", "malformed"}
                 => init_values[FieldOf(k)] = Defaults[FieldOf(k)]
        /\ (\E k \in 1..10 : lineKind[k] \in {"missing", "malformed"}) => settingsError

\* C7: the configuration is not written in the loop and the detections of
\* a candidate sequence do not depend on the images processed before.
C7_DetectionsIndependentOfHistory ==
    /\ [](\A a, b \in results : a.loc = b.loc => a.det = b.det)
    /\ [][init_values' = init_values]_vars

C7_Witness ==
    /\ Len(displayed) >= 2
    /\ Cardinality(results) = 1
    /\ \E a \in results : a.det # <<>>

\* C8: every discarded candidate has a detection accepted before it whose
\* primary-axis coordinate is within 7 of its own; nothing is discarded
\* while nothing has been accepted.
C8_DiscardedNearAccepted ==
    \A d \in 1..Len(discarded) :
        \E a \in 1..discarded[d].before :
            Abs(Unique(detections[a].pt) - Unique(discarded[d].pt)) <= MergeRadius

====
